---- MODULE Spec2Model ----
(***************************************************************************)
(* A model of the wrapped-BTC supply tracker (src/src/index.ts): the       *)
(* retry wrapper, the four readers (Ethereum, Solana, Bitcoin reference,   *)
(* price) and the worker's fetch handler that joins them.                  *)
(*                                                                         *)
(* Granularity: one action per event-loop macrotask (a network response    *)
(* arriving, a body being read, a timer firing); the promise continuations *)
(* that such an event triggers run in the same action, since no timer or   *)
(* network event can interleave with a chain of microtasks.                *)
(***************************************************************************)
EXTENDS Integers, Sequences, FiniteSets, TLC

\* ------------------------------------------------------------------ bounds

\* How many entries of the static token lists the model runs with.
NumEthTokens == 2
NumSolTokens == 2
\* withRetry on its own is run with every attempts value in 0..MaxAttempts.
MaxAttempts == 4

\* ------------------------------------------------------- program constants

RETRY_ATTEMPTS == 3
RETRY_DELAY == 1000
TIMEOUT_MS == 5000

\* --------------------------------------------------------------- utilities

\* A JavaScript string is modelled as the sequence of its characters.
DigitChar(d) == CASE d = 0 -> "0" [] d = 1 -> "1" [] d = 2 -> "2" [] d = 3 -> "3"
                  [] d = 4 -> "4" [] d = 5 -> "5" [] d = 6 -> "6" [] d = 7 -> "7"
                  [] d = 8 -> "8" [] d = 9 -> "9"

\* value.toString() of a non-negative bigint
RECURSIVE BigIntToString(_)
BigIntToString(v) == IF v < 10 THEN <<DigitChar(v)>>
               ELSE Append(BigIntToString(v \div 10), DigitChar(v % 10))

\* str.padStart(n, '0')
RECURSIVE PadStart(_, _)
PadStart(str, n) == IF Len(str) >= n THEN str ELSE PadStart(<<"0">> \o str, n)

\* str.slice(a, b) for 0 <= a <= b <= str.length (0-based, b exclusive)
Slice(str, a, b) == SubSeq(str, a + 1, b)

\* str.replace(/0+$/, '')
RECURSIVE StripTrailingZeros(_)
StripTrailingZeros(str) ==
    IF Len(str) > 0 /\ str[Len(str)] = "0"
    THEN StripTrailingZeros(SubSeq(str, 1, Len(str) - 1))
    ELSE str

\* formatUnits padding to `decimals` digits and without `|| '0'`: the integer
\* part can come out empty
formatUnitsFromDigits(value, decimals) ==
    LET str == IF value = 0 THEN <<>> ELSE BigIntToString(value)
        padded == PadStart(str, decimals)
        i == Len(padded) - decimals
        fracPart == StripTrailingZeros(Slice(padded, i, Len(padded)))
    IN IF fracPart # <<>> THEN Slice(padded, 0, i) \o <<".">> \o fracPart
       ELSE Slice(padded, 0, i)

formatUnits(value, decimals) ==
    LET str == PadStart(BigIntToString(value), decimals + 1)
        i == Len(str) - decimals
        intPart == IF Slice(str, 0, i) = <<>> THEN <<"0">> ELSE Slice(str, 0, i)
        fracPart == StripTrailingZeros(Slice(str, i, Len(str)))
    IN IF fracPart # <<>> THEN intPart \o <<".">> \o fracPart ELSE intPart

\* The sentinel supply '0'.
ZERO == <<"0">>

\* ------------------------------------------------------------ configuration

PRIMARY == "ETH_RPC"
FALLBACK == "ETH_RPC_FALLBACK"

AllEthTokens ==
    << [symbol |-> "wBTC",   address |-> "0x2260"],
       [symbol |-> "renBTC", address |-> "0xeb4c"],
       [symbol |-> "tBTCv1", address |-> "0x8dae"],
       [symbol |-> "tBTCv2", address |-> "0x1808"],
       [symbol |-> "cbBTC",  address |-> "0xcbb7"] >>

AllSolTokens ==
    << [symbol |-> "wBTC",   mint |-> "3NZ9"],
       [symbol |-> "renBTC", mint |-> "CDJW"],
       [symbol |-> "pBTC",   mint |-> "DYDW"],
       [symbol |-> "cbBTC",  mint |-> "cbbt"],
       [symbol |-> "zBTC",   mint |-> "zBTC"],
       [symbol |-> "tBTC",   mint |-> "6DNS"] >>

ethTokens == SubSeq(AllEthTokens, 1, NumEthTokens)
solTokens == SubSeq(AllSolTokens, 1, NumSolTokens)

\* One withRetry frame per Ethereum token (named by its symbol), one per
\* single-call reader, and one for withRetry run on its own ("op").
TokenProcs == {ethTokens[k].symbol : k \in 1..Len(ethTokens)}
HttpProcs == {"sol", "btc", "price"}
OP == "op"
Procs == TokenProcs \cup HttpProcs \cup {OP}

TokenOf(p) == CHOOSE k \in 1..Len(ethTokens) : ethTokens[k].symbol = p

\* ------------------------------------------------------- decoding responses

\* A JSON-RPC response body of an eth_call: an error member, or a result that
\* is absent or a "0x..." string, held as its hex digits (16 stands for a
\* character that is no hex digit).
RpcError == [error |-> TRUE, present |-> FALSE, hex |-> <<>>]
RpcAbsent == [error |-> FALSE, present |-> FALSE, hex |-> <<>>]
RpcResult(hex) == [error |-> FALSE, present |-> TRUE, hex |-> hex]

\* BigInt("0x...") throws a SyntaxError on no digits and on a bad digit
HexValid(hex) == hex # <<>> /\ \A k \in 1..Len(hex) : hex[k] < 16

RECURSIVE HexToInt(_)
HexToInt(hex) == IF hex = <<>> THEN 0
                 ELSE 16 * HexToInt(SubSeq(hex, 1, Len(hex) - 1)) + hex[Len(hex)]

\* the object fetchSingleSupply returns
EthSupply(token, supply) ==
    [symbol |-> token.symbol, supply |-> supply, address |-> token.address]

\* fetchSingleSupply once both bodies are parsed: the error check, the two
\* decodings (a throw is caught and gives '0') and formatUnits.
SingleSupplyOfSupplyErrorOnly(token, supplyRes, decimalsRes) ==
    IF supplyRes.error \/ (supplyRes.present /\ ~HexValid(supplyRes.hex))
    THEN EthSupply(token, ZERO)
    ELSE LET supplyRaw == IF supplyRes.present THEN HexToInt(supplyRes.hex) ELSE 0
             decimals == IF decimalsRes.present /\ HexValid(decimalsRes.hex)
                         THEN HexToInt(decimalsRes.hex) ELSE 8
         IN EthSupply(token, formatUnits(supplyRaw, decimals))

SingleSupplyOf(token, supplyRes, decimalsRes) ==
    IF supplyRes.error \/ decimalsRes.error
    THEN EthSupply(token, ZERO)
    ELSE IF \/ (supplyRes.present /\ ~HexValid(supplyRes.hex))
            \/ (decimalsRes.present /\ ~HexValid(decimalsRes.hex))
    THEN EthSupply(token, ZERO)
    ELSE LET supplyRaw == IF supplyRes.present THEN HexToInt(supplyRes.hex) ELSE 0
             decimals == IF decimalsRes.present THEN HexToInt(decimalsRes.hex) ELSE 8
         IN EthSupply(token, formatUnits(supplyRaw, decimals))

\* what the catch block of fetchSingleSupply returns
SingleSupplyFailed(token) == EthSupply(token, ZERO)

\* An entry of result.value of getMultipleAccounts: null, or an account whose
\* data[0] is base64 text: decodable or not, and the bytes it decodes to.
NullAccount == [present |-> FALSE, base64 |-> FALSE, bytes |-> <<>>]
BadBase64Account == [present |-> TRUE, base64 |-> FALSE, bytes |-> <<>>]
Account(bytes) == [present |-> TRUE, base64 |-> TRUE, bytes |-> bytes]

\* The bytes of a mint account of `len` bytes: the amount at offset 36 (8 bytes,
\* little endian), the decimals at offset 44.
MintBytes(amount, decimals, len) ==
    [k \in 1..len |->
        IF k >= 37 /\ k <= 44
        THEN (IF k - 37 < 4 THEN (amount \div (256 ^ (k - 37))) % 256 ELSE 0)
        ELSE IF k = 45 THEN decimals ELSE 0]

SolSupply(token, supply) ==
    [symbol |-> token.symbol, supply |-> supply, mint |-> token.mint]

\* raw |= BigInt(data[36 + i]) << (8n * BigInt(i)) for i = 0..7, the model's
\* amounts staying below 2^31 (bytes 4..7 are then 0)
RECURSIVE RawAmount(_, _)
RawAmount(bytes, i) ==
    IF i = 8 THEN 0
    ELSE (IF bytes[37 + i] = 0 THEN 0 ELSE bytes[37 + i] * 256 ^ i)
         + RawAmount(bytes, i + 1)

\* the callback of solTokens.map: one account decoded, a throw caught
DecodeAccount(token, acc) ==
    IF ~acc.present THEN SolSupply(token, ZERO)
    ELSE IF ~acc.base64 THEN SolSupply(token, ZERO)
    \* data[36 + i] is undefined past the end and BigInt(undefined) throws
    ELSE IF Len(acc.bytes) < 44 THEN SolSupply(token, ZERO)
    ELSE LET raw == RawAmount(acc.bytes, 0)
             decimals == IF Len(acc.bytes) >= 45 /\ acc.bytes[45] # 0
                         THEN acc.bytes[45] ELSE 8
         IN SolSupply(token, formatUnits(raw, decimals))

\* The body of the Solana response: result.value missing, or the account list.
SolNoValue == [hasValue |-> FALSE, value |-> <<>>]
SolValue(accounts) == [hasValue |-> TRUE, value |-> accounts]

\* fetchSolanaSupplies after the batched call returned res
SolanaSuppliesOfCompacted(res) ==
    LET found == IF res.hasValue THEN SelectSeq(res.value, LAMBDA a : a.present)
                 ELSE <<>>
    IN [idx \in 1..Len(solTokens) |->
            IF idx > Len(found) THEN SolSupply(solTokens[idx], ZERO)
            ELSE DecodeAccount(solTokens[idx], found[idx])]

SolanaSuppliesOf(res) ==
    IF ~res.hasValue
    THEN [idx \in 1..Len(solTokens) |-> SolSupply(solTokens[idx], ZERO)]
    ELSE [idx \in 1..Len(solTokens) |->
            IF idx > Len(res.value) THEN SolSupply(solTokens[idx], ZERO)
            ELSE DecodeAccount(solTokens[idx], res.value[idx])]

\* A JSON number too large for the model's integers is held as whole coins and
\* the satoshis beyond them: the circulation figure is btc * 10^8 + sat.
SATS_PER_BTC == 100000000
MAX_BTC == 21000000

\* res.data?.circulation: not a number, or a figure of satoshis
NotANumber == [number |-> FALSE, btc |-> 0, sat |-> 0]
Satoshis(btc, sat) == [number |-> TRUE, btc |-> btc, sat |-> sat]

\* the digits of a non-negative integer grouped by thousands, as en-US does
RECURSIVE Grouped(_)
Grouped(v) ==
    IF v < 1000 THEN BigIntToString(v)
    ELSE Grouped(v \div 1000) \o <<",">> \o PadStart(BigIntToString(v % 1000), 3)

\* formatNumber(supplySatoshis / 10 ** 8): no fraction digits, so the figure is
\* rounded to the nearest whole coin
formatNumber(btc, sat) ==
    Grouped(IF 2 * sat >= SATS_PER_BTC THEN btc + 1 ELSE btc)

\* fetchBitcoinSupply after the stats call: the validation, whose throw the
\* function's own catch turns into '0'
BitcoinSupplyOfUncapped(c) ==
    IF ~c.number \/ c.btc < 0 THEN ZERO ELSE formatNumber(c.btc, c.sat)

BitcoinSupplyOf(c) ==
    IF \/ ~c.number
       \/ c.btc < 0
       \/ c.btc > MAX_BTC
       \/ (c.btc = MAX_BTC /\ c.sat > 0)
    THEN ZERO
    ELSE formatNumber(c.btc, c.sat)

\* Prices are held in millionths: 0.002 is 2000.
FALLBACK_PRICE == 2000

\* res.solana?.btc: not a number, or a price
NoPrice == [number |-> FALSE, micro |-> 0]
Price(micro) == [number |-> TRUE, micro |-> micro]

\* fetchSolBtcPrice after the pricing call
SolBtcPriceOfZeroPasses(price) ==
    IF ~price.number \/ price.micro < 0 THEN FALLBACK_PRICE ELSE price.micro

SolBtcPriceOf(price) ==
    IF ~price.number \/ price.micro <= 0 THEN FALLBACK_PRICE ELSE price.micro

\* ------------------------------------------------------------------- state

VARIABLES
    retry,     \* retry[p]: the frame of withRetry run for p
    inv,       \* the invocations of a single-call fn that are in flight
    timers,    \* the armed 5000 ms timers, each named by its owner invocation
    single,    \* single[t]: the frame of fetchSingleSupply run for token t
    rpc,       \* rpc[url]: how the Ethereum endpoint url behaves in this run
    plan,      \* withRetry on its own: how many invocations of the operation fail first
    ethSlots,  \* the result array of Promise.all in fetchEthereumSupplies
    out,       \* out[reader]: the promise each reader returned
    handler,   \* the fetch handler: where it is and what it answered
    cache,     \* caches.default: the responses stored by cache.put
    probe      \* a reader's continuation or a pure function run on its own:
               \* what it was given and what it returned

vars == <<retry, inv, timers, single, rpc, plan, ethSlots, out, handler, cache, probe>>

\* ---------------------------------------------------------------- withRetry

NoError == [from |-> "none", call |-> 0, reason |-> "none"]
\* new Error('Retry attempts exhausted')
Exhausted == [from |-> "withRetry", call |-> 0, reason |-> "Retry attempts exhausted"]
\* the failure fn's invocation number n raised
FnError(n, reason) == [from |-> "fn", call |-> n, reason |-> reason]

NoValue == [kind |-> "none"]
NoProbe == [fn |-> "none"]

Urls == {PRIMARY, FALLBACK}
Readers == {"eth", "sol", "btc", "price"}
\* a reader's promise before it settles
Pending == [st |-> "pending", val |-> NoValue]

RetryIdle == [st |-> "idle", i |-> 0, attempts |-> 0, delay |-> 0, calls |-> 0,
              sleeps |-> <<>>, err |-> NoError, val |-> NoValue]

\* The head of the for loop: with i < attempts the body calls fn(); past the
\* loop the function throws 'Retry attempts exhausted'.
LoopHead(r) ==
    IF r.i < r.attempts
    THEN [r EXCEPT !.st = "calling", !.calls = @ + 1]
    ELSE [r EXCEPT !.st = "thrown", !.err = Exhausted]

\* withRetry(fn, attempts, delay) up to its first await
withRetry(attempts, delay) ==
    LoopHead([RetryIdle EXCEPT !.attempts = attempts, !.delay = delay])

\* return await fn(): fn's promise fulfilled with v
FnFulfilledLoopsOn(r, v) == LoopHead([r EXCEPT !.i = @ + 1, !.val = v])

FnFulfilled(r, v) == [r EXCEPT !.st = "returned", !.val = v]

\* catch (err): the last attempt rethrows err, the others start the backoff sleep
FnRejectedSleepAlways(r, e) ==
    [r EXCEPT !.st = "sleeping", !.sleeps = Append(@, r.delay * 2 ^ r.i)]

FnRejected(r, e) ==
    IF r.i = r.attempts - 1
    THEN [r EXCEPT !.st = "thrown", !.err = e]
    ELSE [r EXCEPT !.st = "sleeping", !.sleeps = Append(@, r.delay * 2 ^ r.i)]

\* the sleep's timer fires: i++ and the loop head again
SleepElapsedSameAttempt(r) == LoopHead(r)

SleepElapsed(r) == LoopHead([r EXCEPT !.i = @ + 1])

\* ------------------------------------------------- starting invocations of fn

\* fetchSingleSupply(token, rpcUrl) up to its await: a controller, its timer, and
\* the two calls issued.
InFlight == [done |-> FALSE, json |-> [error |-> FALSE, present |-> FALSE, hex |-> <<>>]]
NoFrame == [st |-> "none", n |-> 0, url |-> PRIMARY, supply |-> InFlight,
            decimals |-> InFlight]
NewFrame(url, n) == [NoFrame EXCEPT !.st = "awaiting", !.n = n, !.url = url]

\* setTimeout(() => controller.abort(), 5000) of invocation n of proc's fn
TimerOf(proc, n) == [proc |-> proc, n |-> n, ms |-> TIMEOUT_MS]

\* The frames of R that stand at a call of fn, among the processes P.
Calling(R, P) == {p \in P : R[p].st = "calling"}

\* fn() is called synchronously by the loop head: the new state of the
\* invocations, timers and fetchSingleSupply frames once the frames R of P have
\* called it. A reader's fn arms a timer; the bare operation has none.
Invoke(R, P, invBase, timersBase, singleBase) ==
    LET B == Calling(R, P) IN
    /\ retry' = R
    /\ inv' = invBase \cup
              {[proc |-> p, n |-> R[p].calls,
                phase |-> IF p = OP THEN "run" ELSE "fetch", late |-> FALSE]
               : p \in B \ TokenProcs}
    /\ timers' = timersBase \cup {TimerOf(p, R[p].calls) : p \in B \ {OP}}
    /\ single' = [t \in TokenProcs |->
                    IF t \in B THEN NewFrame(PRIMARY, R[t].calls) ELSE singleBase[t]]

\* --------------------------------------------------- withRetry on its own

BaseDelays == {1, RETRY_DELAY}

\* the least number of attempts withRetry is called with
MinAttempts == -1

OpValue(n) == [kind |-> "op", call |-> n]

\* A caller runs withRetry(op, attempts, delay) with an operation that fails on
\* its first k invocations.
RunWithRetry ==
    /\ retry[OP].st = "idle"
    /\ \E attempts \in MinAttempts..MaxAttempts, k \in 0..MaxAttempts, delay \in BaseDelays :
          /\ plan' = k
          /\ Invoke([retry EXCEPT ![OP] = withRetry(attempts, delay)], {OP},
                    inv, timers, single)
    /\ UNCHANGED <<rpc, ethSlots, out, handler, cache, probe>>

OpRejects ==
    /\ \E v \in inv :
          /\ v.proc = OP
          /\ v.n <= plan
          /\ retry' = [retry EXCEPT ![OP] = FnRejected(@, FnError(v.n, "op"))]
          /\ inv' = inv \ {v}
    /\ UNCHANGED <<timers, single, rpc, plan, ethSlots, out, handler, cache, probe>>

OpFulfils ==
    /\ \E v \in inv :
          /\ v.proc = OP
          /\ v.n > plan
          /\ retry' = [retry EXCEPT ![OP] = FnFulfilled(@, OpValue(v.n))]
          /\ inv' = inv \ {v}
    /\ UNCHANGED <<timers, single, rpc, plan, ethSlots, out, handler, cache, probe>>

\* setTimeout(resolve, delay * 2 ** i) fires
SleepElapses(p) ==
    /\ retry[p].st = "sleeping"
    /\ Invoke([retry EXCEPT ![p] = SleepElapsed(@)], {p}, inv, timers, single)
    /\ UNCHANGED <<rpc, plan, ethSlots, out, handler, cache, probe>>

\* ------------------------------------------------------ promises of readers

Fulfilled(v) == [st |-> "fulfilled", val |-> v]
Rejected(e) == [st |-> "rejected", val |-> e]

\* clearTimeout(timeout)
ClearTimeoutForgotten(tms, tm) == tms

ClearTimeout(tms, tm) == tms \ {tm}

\* What follows `await withRetry(...)` in a single-call reader once withRetry
\* has settled as r: fetchSolanaSupplies has no catch around it, the two others do.
ReaderOutcome(p, r) ==
    CASE p = "sol" -> IF r.st = "returned" THEN Fulfilled(SolanaSuppliesOf(r.val))
                      ELSE Rejected(r.err)
      [] p = "btc" -> IF r.st = "returned" THEN Fulfilled(BitcoinSupplyOf(r.val))
                      ELSE Fulfilled(ZERO)
      [] p = "price" -> IF r.st = "returned" THEN Fulfilled(SolBtcPriceOf(r.val))
                        ELSE Fulfilled(FALLBACK_PRICE)

Settled(r) == r.st \in {"returned", "thrown"}

\* fn of a single-call reader settled and left withRetry's frame as r: the
\* reader goes on if withRetry has settled, and its frame is gone once it returns.
HttpSettle(p, r) ==
    /\ retry' = [retry EXCEPT ![p] = IF Settled(r) THEN RetryIdle ELSE r]
    /\ out' = IF Settled(r) THEN [out EXCEPT ![p] = ReaderOutcome(p, r)] ELSE out

\* The bodies an endpoint may answer with.
SampleMint == MintBytes(150000000, 8, 45)
SolBodies == {SolNoValue} \cup
             {SolValue(a) : a \in [1..NumSolTokens -> {NullAccount, Account(SampleMint)}]}
BtcBodies == {NotANumber, Satoshis(-1, 99999999), Satoshis(19687500, 0),
              Satoshis(MAX_BTC, 1)}
PriceBodies == {NoPrice, Price(0), Price(2100)}
Bodies(p) == CASE p = "sol" -> SolBodies [] p = "btc" -> BtcBodies
               [] p = "price" -> PriceBodies

HttpInFlight == {v \in inv : v.proc \in HttpProcs}

\* fn throws: its finally clears the timer, its promise rejects
HttpFnRejects(v, reason) ==
    /\ inv' = inv \ {v}
    /\ timers' = ClearTimeout(timers, TimerOf(v.proc, v.n))
    /\ HttpSettle(v.proc, FnRejected(retry[v.proc], FnError(v.n, reason)))
    /\ UNCHANGED <<single, rpc, plan, ethSlots, handler, cache, probe>>

\* await fetch(...) rejects: a network error
FetchRejects(v) ==
    /\ v.phase = "fetch"
    /\ HttpFnRejects(v, "network")

\* if (!resp.ok) throw new Error(`HTTP ${resp.status}`)
ResponseNotOk(v) ==
    /\ v.phase = "fetch"
    /\ HttpFnRejects(v, "http")

\* return resp.json(): the promise of the body is returned, not awaited, so the
\* finally clears the timer while the body is still to be read
ResponseOk(v) ==
    /\ v.phase = "fetch"
    /\ inv' = (inv \ {v}) \cup {[v EXCEPT !.phase = "body"]}
    /\ timers' = ClearTimeout(timers, TimerOf(v.proc, v.n))
    /\ UNCHANGED <<retry, single, rpc, plan, ethSlots, out, handler, cache, probe>>

\* resp.json() rejects: the body is no JSON
BodyMalformed(v) ==
    /\ v.phase = "body"
    /\ inv' = inv \ {v}
    /\ HttpSettle(v.proc, FnRejected(retry[v.proc], FnError(v.n, "json")))
    /\ UNCHANGED <<timers, single, rpc, plan, ethSlots, handler, cache, probe>>

\* resp.json() fulfils with the parsed body
BodyParsed(v) ==
    /\ v.phase = "body"
    /\ \E json \in Bodies(v.proc) :
          HttpSettle(v.proc, FnFulfilled(retry[v.proc], json))
    /\ inv' = inv \ {v}
    /\ UNCHANGED <<timers, single, rpc, plan, ethSlots, handler, cache, probe>>

\* 5000 ms have passed since the invocation began and it has no armed timer
\* (with one armed, the same instant is TimerFires)
DeadlinePasses(v) ==
    /\ ~v.late
    /\ TimerOf(v.proc, v.n) \notin timers
    /\ inv' = (inv \ {v}) \cup {[v EXCEPT !.late = TRUE]}
    /\ UNCHANGED <<retry, timers, single, rpc, plan, ethSlots, out, handler, cache, probe>>

\* ----------------------------------------------------- fetchSingleSupply

\* What an Ethereum endpoint does in a run: "up" answers every call in time
\* with a result, "unreachable" fails every call (network error or timeout),
\* "lossy" answers a call with a result or fails it, "flaky" may do anything,
\* JSON-RPC errors and odd results included.
Health == {"up", "unreachable", "lossy", "flaky"}

SupplyHex == <<8, 15, 0, 13, 1, 8, 0>>
DecimalsHex == <<8>>

EthBodies(c, health) ==
    CASE health = "unreachable" -> {}
      [] health \in {"up", "lossy"} ->
            IF c = "supply" THEN {RpcResult(SupplyHex)} ELSE {RpcResult(DecimalsHex)}
      [] health = "flaky" ->
            IF c = "supply"
            THEN {RpcError, RpcAbsent, RpcResult(<<16>>), RpcResult(SupplyHex)}
            ELSE {RpcError, RpcAbsent, RpcResult(DecimalsHex)}

CallNames == {"supply", "decimals"}
OtherCall(c) == IF c = "supply" THEN "decimals" ELSE "supply"

\* How an invocation of fetchSingleSupply ends: its catch block returns the
\* '0' record, so the promise it returns never rejects.
SingleCatchRethrows(token) == [rejected |-> TRUE, val |-> SingleSupplyFailed(token)]

SingleCatch(token) == [rejected |-> FALSE, val |-> SingleSupplyFailed(token)]

SingleReturn(token, supplyRes, decimalsRes) ==
    [rejected |-> FALSE, val |-> SingleSupplyOf(token, supplyRes, decimalsRes)]

\* Promise.all keeps each promise's value at the promise's own index.
EmptySlot == [symbol |-> "", supply |-> <<>>, address |-> ""]
AllFilled(slots) == \A k \in 1..Len(slots) : slots[k] # EmptySlot

PromiseAllPutInCompletionOrder(slots, k, v) ==
    LET free == {j \in 1..Len(slots) : slots[j] = EmptySlot}
        first == CHOOSE j \in free : \A h \in free : j <= h
    IN [slots EXCEPT ![first] = v]

PromiseAllPut(slots, k, v) == [slots EXCEPT ![k] = v]

\* The invocation of fetchSingleSupply for token t ends with `outcome`: its
\* finally clears the timer (tms: the timers armed at that point); then, for
\* the primary endpoint, withRetry goes on (return, sleep, or rethrow into the
\* .catch that calls the fallback), and a value reaches the token's slot of
\* Promise.all, which fulfils fetchEthereumSupplies once every slot is filled.
TokenStep(t, outcome, tms) ==
    LET f == single[t]
        inRetry == f.url = PRIMARY
        err == FnError(f.n, "single")
        r == IF ~inRetry THEN RetryIdle
             ELSE IF outcome.rejected THEN FnRejected(retry[t], err)
             ELSE FnFulfilled(retry[t], outcome.val)
        cleared == ClearTimeout(tms, TimerOf(t, f.n))
        toFallback == inRetry /\ r.st = "thrown"
        hasValue == ~outcome.rejected
        fails == ~inRetry /\ outcome.rejected
        slots == IF hasValue THEN PromiseAllPut(ethSlots, TokenOf(t), outcome.val)
                 ELSE ethSlots
    IN /\ retry' = [retry EXCEPT ![t] = IF r.st = "sleeping" THEN r ELSE RetryIdle]
       /\ single' = [single EXCEPT ![t] =
                        IF toFallback THEN NewFrame(FALLBACK, f.n + 1) ELSE NoFrame]
       /\ timers' = IF toFallback THEN cleared \cup {TimerOf(t, f.n + 1)} ELSE cleared
       /\ ethSlots' = slots
       /\ out' = IF out["eth"].st # "pending" THEN out
                 ELSE IF fails THEN [out EXCEPT !["eth"] = Rejected(err)]
                 ELSE IF AllFilled(slots) THEN [out EXCEPT !["eth"] = Fulfilled(slots)]
                 ELSE out

Awaiting(t) == single[t].st = "awaiting"

\* fetch(...).then((r) => r.json()) of call c rejects: a network error or a
\* body that is no JSON; Promise.all rejects and the catch block runs
CallRejects(t, c) ==
    /\ Awaiting(t)
    /\ ~single[t][c].done
    /\ rpc[single[t].url] # "up"
    /\ TokenStep(t, SingleCatch(ethTokens[TokenOf(t)]), timers)
    /\ UNCHANGED <<inv, rpc, plan, handler, cache, probe>>

\* the body of call c is parsed; with both parsed the function goes on
CallParsed(t, c) ==
    /\ Awaiting(t)
    /\ ~single[t][c].done
    /\ \E json \in EthBodies(c, rpc[single[t].url]) :
          LET f == [single[t] EXCEPT ![c] = [done |-> TRUE, json |-> json]] IN
          IF f[OtherCall(c)].done
          THEN TokenStep(t, SingleReturn(ethTokens[TokenOf(t)], f.supply.json,
                                         f.decimals.json), timers)
          ELSE /\ single' = [single EXCEPT ![t] = f]
               /\ UNCHANGED <<retry, timers, ethSlots, out>>
    /\ UNCHANGED <<inv, rpc, plan, handler, cache, probe>>

\* ------------------------------------------------------------ the 5000 ms timer

\* The network calls in flight that carry the signal of the controller timer tm
\* aborts: the one fetch of a single-call reader's invocation, and both fetches
\* of an invocation of fetchSingleSupply, which share one controller.
CancelsWholeBatch(tm) ==
    {<<t, c>> : t \in {u \in TokenProcs : Awaiting(u)},
                c \in CallNames}

Cancels(tm) ==
    IF tm.proc \in TokenProcs
    THEN IF Awaiting(tm.proc) /\ single[tm.proc].n = tm.n
         THEN {<<tm.proc, c>> : c \in {d \in CallNames : ~single[tm.proc][d].done}}
         ELSE {}
    ELSE {<<v.proc, "fetch">> : v \in {w \in inv : w.proc = tm.proc /\ w.n = tm.n}}

\* setTimeout(() => controller.abort(), 5000) fires: the calls that carry the
\* controller's signal reject, and the invocation that awaits them fails. A
\* timer whose invocation is over aborts nothing.
TimerFires(tm) ==
    /\ tm \in timers
    /\ IF tm.proc \in TokenProcs
       THEN /\ rpc[single[tm.proc].url] # "up"
            /\ IF Cancels(tm) # {}
               THEN TokenStep(tm.proc, SingleCatch(ethTokens[TokenOf(tm.proc)]),
                              timers \ {tm})
               ELSE /\ timers' = timers \ {tm}
                    /\ UNCHANGED <<retry, single, ethSlots, out>>
            /\ UNCHANGED inv
       ELSE IF Cancels(tm) # {}
            THEN LET v == CHOOSE w \in inv : w.proc = tm.proc /\ w.n = tm.n IN
                 /\ inv' = inv \ {v}
                 /\ timers' = IF v.phase = "fetch"
                              THEN ClearTimeout(timers \ {tm}, tm)
                              ELSE timers \ {tm}
                 /\ HttpSettle(v.proc, FnRejected(retry[v.proc], FnError(v.n, "abort")))
                 /\ UNCHANGED <<single, ethSlots>>
            ELSE /\ timers' = timers \ {tm}
                 /\ UNCHANGED <<retry, inv, single, ethSlots, out>>
    /\ UNCHANGED <<rpc, plan, handler, cache, probe>>

\* --------------------------------------------------------------- the readers

\* The readers of P are called: each runs to its first await, which is inside
\* withRetry(fn) with the default attempts and delay.
StartReaders(P) ==
    /\ Invoke([p \in Procs |-> IF p \in P THEN withRetry(RETRY_ATTEMPTS, RETRY_DELAY)
                                ELSE retry[p]],
              P, inv, timers, single)
    /\ ethSlots' = IF TokenProcs \subseteq P
                   THEN [k \in 1..Len(ethTokens) |-> EmptySlot] ELSE ethSlots

\* --------------------------------------------------------------- the totals

DigitValue(ch) == CHOOSE d \in 0..9 : DigitChar(d) = ch

RECURSIVE DigitsToInt(_)
DigitsToInt(str) == IF str = <<>> THEN 0
                    ELSE 10 * DigitsToInt(SubSeq(str, 1, Len(str) - 1))
                         + DigitValue(str[Len(str)])

DotAt(str) == IF \E k \in 1..Len(str) : str[k] = "."
              THEN CHOOSE k \in 1..Len(str) : str[k] = "."
              ELSE Len(str) + 1

\* A JavaScript Number (IEEE 754 binary64, never negative here) is held exactly,
\* as the integer value * 2^FRAC_BITS: every binary64 from 10^-8 up is a whole
\* multiple of 2^-79. Its precision is that of binary64: MANTISSA_BITS
\* significant bits. Such an integer is a sequence of limbs, digits in base
\* LIMB, lowest first and without leading zeros.
FRAC_BITS == 90
MANTISSA_BITS == 53
LIMB == 32768
TEN4 == 10000

RECURSIVE Limbs(_)
Limbs(n) == IF n = 0 THEN <<>> ELSE <<n % LIMB>> \o Limbs(n \div LIMB)

RECURSIVE Trim(_)
Trim(a) == IF a # <<>> /\ a[Len(a)] = 0 THEN Trim(SubSeq(a, 1, Len(a) - 1)) ELSE a

Rest(a) == IF a = <<>> THEN <<>> ELSE Tail(a)
First(a) == IF a = <<>> THEN 0 ELSE a[1]
IsOdd(a) == First(a) % 2 = 1

\* a + b + c for a carry c
RECURSIVE LimbsAdd(_, _, _)
LimbsAdd(a, b, c) ==
    IF a = <<>> /\ b = <<>> THEN Limbs(c)
    ELSE <<(First(a) + First(b) + c) % LIMB>>
         \o LimbsAdd(Rest(a), Rest(b), (First(a) + First(b) + c) \div LIMB)

\* a * k + c for an integer k up to LIMB
RECURSIVE LimbsTimes(_, _, _)
LimbsTimes(a, k, c) ==
    IF a = <<>> THEN Limbs(c)
    ELSE <<(a[1] * k + c) % LIMB>> \o LimbsTimes(Tail(a), k, (a[1] * k + c) \div LIMB)

\* a divided by an integer k up to LIMB, from limb i down, r being the
\* remainder of the limbs above i and q the quotient's limbs above i
RECURSIVE LimbsDivFrom(_, _, _, _, _)
LimbsDivFrom(a, k, i, r, q) ==
    IF i = 0 THEN [q |-> Trim(q), r |-> r]
    ELSE LimbsDivFrom(a, k, i - 1, (r * LIMB + a[i]) % k,
                      <<(r * LIMB + a[i]) \div k>> \o q)

LimbsDiv(a, k) == LimbsDivFrom(a, k, Len(a), 0, <<>>)

\* the number of bits of a limb, and of a
RECURSIVE BitLength(_)
BitLength(n) == IF n = 0 THEN 0 ELSE 1 + BitLength(n \div 2)

LimbsBitLength(a) ==
    IF a = <<>> THEN 0 ELSE 15 * (Len(a) - 1) + BitLength(a[Len(a)])

\* floor(a / 2^m), and whether bits were lost
ShiftRight(a, m) ==
    LET whole == m \div 15
        d == LimbsDiv(SubSeq(a, whole + 1, Len(a)), 2 ^ (m % 15))
    IN [q |-> d.q,
        inexact |-> d.r # 0 \/ \E k \in 1..whole : k <= Len(a) /\ a[k] # 0]

\* a * 2^m
ShiftLeft(a, m) ==
    IF a = <<>> THEN <<>>
    ELSE [k \in 1..(m \div 15) |-> 0] \o LimbsTimes(a, 2 ^ (m % 15), 0)

\* Round to nearest, ties to even, at MANTISSA_BITS significant bits; `inexact`
\* tells that the exact value lies above a.
RoundToNearest(a, inexact) ==
    LET drop == LimbsBitLength(a) - MANTISSA_BITS
        y == ShiftRight(a, drop - 1)
        kept == ShiftRight(y.q, 1).q
        up == IsOdd(y.q) /\ (inexact \/ y.inexact \/ IsOdd(kept))
    IN IF drop <= 0 THEN a
       ELSE ShiftLeft(LimbsAdd(kept, <<>>, IF up THEN 1 ELSE 0), drop)

\* parseFloat(token.supply) || 0: the binary64 nearest to the decimal; digits
\* past the eighth fraction digit are cut (the model's supplies have none)
ParseFloat8(str) ==
    LET dot == DotAt(str)
        frac == SubSeq(str, dot + 1, Len(str))
        frac8 == SubSeq(frac \o <<"0", "0", "0", "0", "0", "0", "0", "0">>, 1, 8)
        whole == Limbs(DigitsToInt(SubSeq(str, 1, dot - 1)))
        units == LimbsAdd(LimbsTimes(LimbsTimes(whole, TEN4, 0), TEN4, 0),
                          Limbs(DigitsToInt(frac8)), 0)
        d1 == LimbsDiv(ShiftLeft(units, FRAC_BITS), TEN4)
        d2 == LimbsDiv(d1.q, TEN4)
    IN RoundToNearest(d2.q, d1.r # 0 \/ d2.r # 0)

\* x + y of two Numbers
Plus(x, y) == RoundToNearest(LimbsAdd(x, y, 0), FALSE)

\* the integer a holds, a being small
RECURSIVE LimbsToInt(_)
LimbsToInt(a) == IF a = <<>> THEN 0 ELSE a[1] + LIMB * LimbsToInt(Tail(a))

\* x.toFixed(8): the integer n nearest to x * 10^8 (the larger of two), with a
\* point before its last 8 digits
ToFixed8(x) ==
    LET t == LimbsTimes(LimbsTimes(x, TEN4, 0), TEN4, 0)
        n == ShiftRight(LimbsAdd(ShiftRight(t, FRAC_BITS - 1).q, <<>>, 1), 1).q
        low == LimbsDiv(n, TEN4)
        high == LimbsDiv(low.q, TEN4)
    IN BigIntToString(LimbsToInt(high.q)) \o <<".">>
       \o PadStart(BigIntToString(high.r), 4) \o PadStart(BigIntToString(low.r), 4)

\* tokens.reduce((sum, token) => sum + (parseFloat(token.supply) || 0), 0)
RECURSIVE SumSupplies(_)
SumSupplies(tokens) ==
    IF tokens = <<>> THEN <<>>
    ELSE Plus(SumSupplies(SubSeq(tokens, 1, Len(tokens) - 1)),
              ParseFloat8(tokens[Len(tokens)].supply))

calculateTotal(tokens) == ToFixed8(SumSupplies(tokens))

\* ---------------------------------------------------------------- the handler

\* the payload built from the four results (lastUpdated, the wall clock's
\* reading, is left out)
Payload(ethArray, solArray, btcSupply, solBtcPrice) ==
    LET ethTotal == calculateTotal(ethArray)
        solTotal == calculateTotal(solArray)
    IN [ethereum |-> ethArray,
        solana |-> solArray,
        ethereumTotal |-> ethTotal,
        solanaTotal |-> solTotal,
        grandTotal |-> ToFixed8(Plus(ParseFloat8(ethTotal), ParseFloat8(solTotal))),
        currentlyMintedBTC |-> btcSupply,
        solBtcPrice |-> solBtcPrice]

SnapshotResponse(payload) == [status |-> 200, body |-> "payload", payload |-> payload]
ErrorResponse == [status |-> 500, body |-> "Internal server error"]

\* fetch(request) were `if (response) return response` to serve the cache
RequestServesCache ==
    /\ handler.pc = "idle"
    /\ IF cache # {}
       THEN /\ handler' = [pc |-> "responded", response |-> CHOOSE c \in cache : TRUE]
            /\ UNCHANGED <<retry, inv, timers, single, ethSlots>>
       ELSE /\ StartReaders(TokenProcs \cup HttpProcs)
            /\ handler' = [handler EXCEPT !.pc = "awaiting"]
    /\ UNCHANGED <<rpc, plan, out, cache, probe>>

\* fetch(request) up to await Promise.all([...]): the cache is looked up and the
\* lookup's result never used (if (false && response)); the four readers start.
Request ==
    /\ handler.pc = "idle"
    /\ StartReaders(TokenProcs \cup HttpProcs)
    /\ handler' = [handler EXCEPT !.pc = "awaiting"]
    /\ UNCHANGED <<rpc, plan, out, cache, probe>>

AnyRejected == \E r \in Readers : out[r].st = "rejected"
AllFulfilled == \A r \in Readers : out[r].st = "fulfilled"

\* Respond with the catch block storing its response too
RespondStoresError ==
    /\ handler.pc = "awaiting"
    /\ AnyRejected \/ AllFulfilled
    /\ LET response == IF AnyRejected THEN ErrorResponse
                       ELSE SnapshotResponse(Payload(out["eth"].val, out["sol"].val,
                                                     out["btc"].val, out["price"].val))
       IN /\ handler' = [pc |-> "responded", response |-> response]
          /\ cache' = cache \cup {response}
    /\ UNCHANGED <<retry, inv, timers, single, rpc, plan, ethSlots, out, probe>>

\* Promise.all of the four readers settles: fulfilled by all four, the payload
\* is built, stored by cache.put and returned; rejected by the first reader to
\* reject, the catch block answers 500.
Respond ==
    /\ handler.pc = "awaiting"
    /\ AnyRejected \/ AllFulfilled
    /\ IF AnyRejected
       THEN /\ handler' = [pc |-> "responded", response |-> ErrorResponse]
            /\ cache' = cache
       ELSE LET response == SnapshotResponse(Payload(out["eth"].val, out["sol"].val,
                                                     out["btc"].val, out["price"].val))
            IN /\ handler' = [pc |-> "responded", response |-> response]
               /\ cache' = cache \cup {response}
    /\ UNCHANGED <<retry, inv, timers, single, rpc, plan, ethSlots, out, probe>>

InitCommon ==
    /\ retry = [p \in Procs |-> RetryIdle]
    /\ inv = {}
    /\ timers = {}
    /\ single = [t \in TokenProcs |-> NoFrame]
    /\ plan = 0
    /\ ethSlots = <<>>
    /\ out = [r \in Readers |-> Pending]
    /\ handler = [pc |-> "idle", response |-> NoValue]
    /\ cache = {}
    /\ probe = NoProbe

InitRetry ==
    /\ InitCommon
    /\ rpc = [u \in Urls |-> "up"]

NextRetry ==
    \/ RunWithRetry
    \/ OpRejects
    \/ OpFulfils
    \/ SleepElapses(OP)

SpecRetry == InitRetry /\ [][NextRetry]_vars

\* The worker serving a request, in one of two situations: both Ethereum
\* endpoints answering or failing call by call, or the primary endpoint out
\* and the fallback endpoint answering.
Situations ==
    {[u \in Urls |-> "lossy"],
     [u \in Urls |-> IF u = PRIMARY THEN "unreachable" ELSE "up"]}

Init ==
    /\ InitCommon
    /\ rpc \in Situations

ReaderStep ==
    \/ \E p \in Procs \ {OP} : SleepElapses(p)
    \/ \E v \in HttpInFlight :
          FetchRejects(v) \/ ResponseNotOk(v) \/ ResponseOk(v)
          \/ BodyMalformed(v) \/ BodyParsed(v)
    \/ \E t \in TokenProcs, c \in CallNames : CallRejects(t, c) \/ CallParsed(t, c)
    \/ \E tm \in timers : TimerFires(tm)

Next ==
    \/ Request
    \/ ReaderStep
    \/ Respond

Spec == Init /\ [][Next]_vars

\* Respond can happen: it always changes handler.pc, so this is
\* ENABLED <<Respond>>_vars
RespondEnabled ==
    /\ handler.pc = "awaiting"
    /\ AnyRejected \/ AllFulfilled

\* The worker serving a request whose cache key may hold the response an
\* earlier request stored: a snapshot of other figures than any this request
\* can read.
StoredResponse ==
    SnapshotResponse(Payload(
        [k \in 1..Len(ethTokens) |-> EthSupply(ethTokens[k], <<"2">>)],
        [k \in 1..Len(solTokens) |-> SolSupply(solTokens[k], <<"3">>)],
        formatNumber(19000000, 0), 1900))

InitCached ==
    /\ retry = [p \in Procs |-> RetryIdle]
    /\ inv = {}
    /\ timers = {}
    /\ single = [t \in TokenProcs |-> NoFrame]
    /\ plan = 0
    /\ ethSlots = <<>>
    /\ out = [r \in Readers |-> Pending]
    /\ handler = [pc |-> "idle", response |-> NoValue]
    /\ cache \in {{}, {StoredResponse}}
    /\ probe = NoProbe
    /\ rpc \in Situations

SpecCached == InitCached /\ [][Next]_vars

\* The worker under the event loop's scheduling: a request that arrived is
\* handled, every call in flight settles or is aborted, every sleep elapses,
\* and the handler's continuation runs once Promise.all has settled. The last
\* conjunct is WF_vars(Respond) with its ENABLED written out as RespondEnabled.
Fairness ==
    /\ WF_vars(Request)
    /\ WF_vars(ReaderStep)
    /\ ([]<>(~RespondEnabled) \/ []<><<Respond>>_vars)

SpecFair == Spec /\ Fairness

\* The same with a clock watching each invocation's 5000 ms window.
NextTimed ==
    \/ Next
    \/ \E v \in HttpInFlight : DeadlinePasses(v)

SpecTimed == Init /\ [][NextTimed]_vars

\* ------------------------------------- the readers' continuations on their own

\* withRetry's frame once the first invocation of fn fulfilled with `body`, and
\* once every invocation has failed.
ReturnedWith(body) == FnFulfilled(withRetry(RETRY_ATTEMPTS, RETRY_DELAY), body)

RECURSIVE FailsAll(_)
FailsAll(r) ==
    IF r.st = "calling" THEN FailsAll(FnRejected(r, FnError(r.calls, "network")))
    ELSE IF r.st = "sleeping" THEN FailsAll(SleepElapsed(r))
    ELSE r

AllFailed == FailsAll(withRetry(RETRY_ATTEMPTS, RETRY_DELAY))

\* The account blobs a batched response is made of: mint accounts of 45 bytes
\* holding an amount and a decimals byte, a blob cut short, text that is no
\* base64, and null.
ProbeAmounts == {150000000, 1234567}
ProbeDecimals == {6, 8}
Blobs ==
    {NullAccount, BadBase64Account, Account(MintBytes(150000000, 8, 40))}
    \cup {Account(MintBytes(a, d, 45)) : a \in ProbeAmounts, d \in ProbeDecimals}

\* Responses of getMultipleAccounts: no result.value, or a list of up to
\* NumSolTokens entries (a shorter list leaves the last tokens without entry).
SolResponses ==
    {SolNoValue} \cup
    {SolValue(a) : a \in UNION {[1..n -> Blobs] : n \in 0..NumSolTokens}}

\* fetchSolanaSupplies from `await withRetry(...)` on, withRetry settled as r
RunSolana ==
    /\ probe = NoProbe
    /\ \E r \in {ReturnedWith(b) : b \in SolResponses} \cup {AllFailed} :
          probe' = [fn |-> "fetchSolanaSupplies", settled |-> r,
                    out |-> ReaderOutcome("sol", r)]
    /\ UNCHANGED <<retry, inv, timers, single, rpc, plan, ethSlots, out, handler, cache>>

\* formatUnits(whole * 10^8 + frac, 8) for a raw figure too large for the
\* model's integers
SupplyOf(whole, frac) ==
    IF frac = 0 THEN BigIntToString(whole)
    ELSE BigIntToString(whole) \o <<".">>
         \o StripTrailingZeros(PadStart(BigIntToString(frac), 8))

\* The supplies the lists handed to the totals are made of.
ProbeSupplies ==
    {ZERO, SupplyOf(100, 0), SupplyOf(50, 0), SupplyOf(1, 50000000),
     SupplyOf(0, 1), SupplyOf(20453432, 13509552), SupplyOf(17318334, 87274381)}

\* Lists of up to `all` entries: every entry the same supply, or two entries.
ProbeLists(all, Entry(_, _)) ==
    {[k \in 1..n |-> Entry(all[k], x)] : n \in 1..Len(all), x \in ProbeSupplies}
    \cup {<<Entry(all[1], x), Entry(all[2], y)>> : x, y \in ProbeSupplies}

\* the handler from `const ethTotal = ...` on, given the readers' results
RunTotals ==
    /\ probe = NoProbe
    /\ \E ethArray \in ProbeLists(AllEthTokens, EthSupply),
          solArray \in ProbeLists(AllSolTokens, SolSupply) :
          probe' = [fn |-> "fetch", eth |-> ethArray, sol |-> solArray,
                    out |-> Payload(ethArray, solArray, ZERO, FALLBACK_PRICE)]
    /\ UNCHANGED <<retry, inv, timers, single, rpc, plan, ethSlots, out, handler, cache>>

\* The circulation figures and the prices a response may carry.
ProbeFigures ==
    {NotANumber} \cup
    {Satoshis(b, f) : b \in {-1, 0, 999, 1000, 19687500, MAX_BTC - 1, MAX_BTC,
                             MAX_BTC + 1},
                      f \in {0, 1, 49999999, 50000000, 99999999}}

ProbePrices == {NoPrice} \cup {Price(m) : m \in {-2100, -1, 0, 1, 2000, 2100}}

\* fetchBitcoinSupply from `await withRetry(...)` on, withRetry settled as r
RunBitcoin ==
    /\ probe = NoProbe
    /\ \E r \in {ReturnedWith(c) : c \in ProbeFigures} \cup {AllFailed} :
          probe' = [fn |-> "fetchBitcoinSupply", settled |-> r,
                    out |-> ReaderOutcome("btc", r)]
    /\ UNCHANGED <<retry, inv, timers, single, rpc, plan, ethSlots, out, handler, cache>>

\* fetchSolBtcPrice from `await withRetry(...)` on, withRetry settled as r
RunPrice ==
    /\ probe = NoProbe
    /\ \E r \in {ReturnedWith(c) : c \in ProbePrices} \cup {AllFailed} :
          probe' = [fn |-> "fetchSolBtcPrice", settled |-> r,
                    out |-> ReaderOutcome("price", r)]
    /\ UNCHANGED <<retry, inv, timers, single, rpc, plan, ethSlots, out, handler, cache>>

\* What one attempt of a single-call reader's fn meets: a failure (the fetch
\* rejects, a non-success status, a body that is no JSON, the timer's abort) or
\* a parsed body.
Fails(reason) == [kind |-> "fails", reason |-> reason, body |-> NoValue]
Answers(body) == [kind |-> "body", reason |-> "none", body |-> body]

ProbeBodies(p) ==
    CASE p = "sol" ->
            {SolNoValue} \cup
            {SolValue(a) : a \in [1..NumSolTokens ->
                                    {NullAccount, BadBase64Account, Account(SampleMint)}]}
      [] p = "btc" -> BtcBodies
      [] p = "price" -> PriceBodies

Events(p) == {Fails("network"), Fails("json")} \cup {Answers(b) : b \in ProbeBodies(p)}

\* a body the reader's checks after withRetry turn down as a whole
Refused(p, body) ==
    CASE p = "sol" -> ~body.hasValue
      [] p = "btc" -> BitcoinSupplyOf(body) = ZERO
      [] p = "price" -> ~body.number \/ body.micro <= 0

\* Whether fn's promise rejects in an attempt that meets e: fn returns
\* resp.json() as parsed and checks nothing in it.
FnRejectsOnRefused(p, e) == e.kind = "fails" \/ Refused(p, e.body)

FnRejectsOn(p, e) == e.kind = "fails"

\* withRetry's frame r run to its end, attempt n of fn meeting script[n]
RECURSIVE Play(_, _, _)
Play(p, r, script) ==
    IF r.st = "calling"
    THEN IF FnRejectsOn(p, script[r.calls])
         THEN Play(p, FnRejected(r, FnError(r.calls, script[r.calls].reason)), script)
         ELSE FnFulfilled(r, script[r.calls].body)
    ELSE IF r.st = "sleeping" THEN Play(p, SleepElapsed(r), script)
    ELSE r

\* a single-call reader run from its call to its return against a script
RunReader ==
    /\ probe = NoProbe
    /\ \E p \in HttpProcs :
          \E script \in [1..RETRY_ATTEMPTS -> Events(p)] :
             LET r == Play(p, withRetry(RETRY_ATTEMPTS, RETRY_DELAY), script)
             IN probe' = [fn |-> "reader", reader |-> p, script |-> script,
                          settled |-> r, out |-> ReaderOutcome(p, r)]
    /\ UNCHANGED <<retry, inv, timers, single, rpc, plan, ethSlots, out, handler, cache>>

\* What a call of fetchSingleSupply meets: a transport failure (the fetch or
\* r.json() rejects, the abort included) or a parsed JSON-RPC body.
CallFails == [failed |-> TRUE, json |-> RpcAbsent]
CallAnswers(json) == [failed |-> FALSE, json |-> json]

SupplyCalls ==
    {CallFails} \cup
    {CallAnswers(j) : j \in {RpcError, RpcAbsent, RpcResult(SupplyHex), RpcResult(<<0>>),
                             RpcResult(<<16>>), RpcResult(<<>>)}}
DecimalsCalls ==
    {CallFails} \cup
    {CallAnswers(j) : j \in {RpcError, RpcAbsent, RpcResult(DecimalsHex), RpcResult(<<6>>),
                             RpcResult(<<1, 2>>), RpcResult(<<0>>), RpcResult(<<16>>)}}

\* how an invocation of fetchSingleSupply ends, its two calls meeting s and d
SingleOutcome(token, s, d) ==
    IF s.failed \/ d.failed THEN SingleCatch(token)
    ELSE SingleReturn(token, s.json, d.json)

\* withRetry(() => fetchSingleSupply(token, CONFIG.ETH_RPC)) from its call to
\* the end of the first invocation
RunSingle ==
    /\ probe = NoProbe
    /\ \E k \in 1..Len(ethTokens), s \in SupplyCalls, d \in DecimalsCalls :
          LET o == SingleOutcome(ethTokens[k], s, d)
              r0 == withRetry(RETRY_ATTEMPTS, RETRY_DELAY)
              r == IF o.rejected THEN FnRejected(r0, FnError(r0.calls, "single"))
                   ELSE FnFulfilled(r0, o.val)
          IN probe' = [fn |-> "fetchSingleSupply", token |-> ethTokens[k],
                       supply |-> s, decimals |-> d, result |-> o, settled |-> r]
    /\ UNCHANGED <<retry, inv, timers, single, rpc, plan, ethSlots, out, handler, cache>>

\* The values of the decimals byte tried: 0 to MaxDecimalsByte (a byte holds up
\* to 255; the strings of formatUnits grow with it).
MaxDecimalsByte == 64
DecimalsBytes == 0..MaxDecimalsByte

\* the callback of solTokens.map on one well-formed account of 45 bytes or more
RunAccount ==
    /\ probe = NoProbe
    /\ \E k \in 1..Len(solTokens), a \in ProbeAmounts \cup {0}, d \in DecimalsBytes,
          len \in {45, 82} :
          probe' = [fn |-> "decode", token |-> solTokens[k], amount |-> a,
                    decimals |-> d, len |-> len,
                    out |-> DecodeAccount(solTokens[k], Account(MintBytes(a, d, len)))]
    /\ UNCHANGED <<retry, inv, timers, single, rpc, plan, ethSlots, out, handler, cache>>

\* Blobs that are present and not well formed: text that is no base64, and
\* accounts cut short at every length below 45 bytes.
MintSize == 45
CutBlobs ==
    {BadBase64Account}
    \cup {Account(MintBytes(a, 8, len)) : a \in ProbeAmounts, len \in 0..(MintSize - 1)}

\* fetchSolanaSupplies after the batched call returned a list holding a blob
\* that is not well formed at index i
RunMalformed ==
    /\ probe = NoProbe
    /\ \E i \in 1..Len(solTokens), b \in CutBlobs,
          other \in {NullAccount, Account(SampleMint), Account(MintBytes(1234567, 6, 45))} :
          LET accounts == [k \in 1..Len(solTokens) |-> IF k = i THEN b ELSE other]
              r == ReturnedWith(SolValue(accounts))
          IN probe' = [fn |-> "malformed", at |-> i, blob |-> b, settled |-> r,
                       out |-> ReaderOutcome("sol", r)]
    /\ UNCHANGED <<retry, inv, timers, single, rpc, plan, ethSlots, out, handler, cache>>

\* The raw integers and the decimal places formatUnits is tried on.
MaxRaw == 120
MaxPlaces == 12
ProbeRaws ==
    0..MaxRaw
    \cup {1000, 1234567, 99999999, 100000000, 100000001, 150000000, 2000000000,
          2147483647}

\* formatUnits(value, decimals) on its own
RunFormat ==
    /\ probe = NoProbe
    /\ \E r \in ProbeRaws, d \in 0..MaxPlaces :
          probe' = [fn |-> "formatUnits", value |-> r, decimals |-> d,
                    out |-> formatUnits(r, d)]
    /\ UNCHANGED <<retry, inv, timers, single, rpc, plan, ethSlots, out, handler, cache>>

NextDecode ==
    \/ RunAccount
    \/ RunFormat
    \/ RunMalformed
    \/ RunSolana
    \/ RunTotals
    \/ RunBitcoin
    \/ RunPrice
    \/ RunReader
    \/ RunSingle

SpecDecode == InitRetry /\ [][NextDecode]_vars

RECURSIVE Sum(_)
Sum(seq) == IF seq = <<>> THEN 0 ELSE seq[1] + Sum(Tail(seq))

OpInFlight == {v \in inv : v.proc = OP}

\* C4: withRetry run with attempts n >= 1 and an operation that fails on every
\* invocation calls it at most n times, sleeps delay * 2^i after failure i
\* (i = 0..n-2) and never after the last one, never returns, and ends by
\* throwing the failure of the operation's n-th invocation after exactly n calls
\* and n-1 sleeps (delay * (1 + 2) in all for n = 3).
C4_RetryExhaustion ==
    LET r == retry[OP]
        n == r.attempts
    IN (n >= 1 /\ plan >= n) =>
         /\ r.st \in {"calling", "sleeping", "thrown"}
         /\ r.calls <= n
         /\ r.sleeps = [j \in 1..Len(r.sleeps) |-> r.delay * 2 ^ (j - 1)]
         /\ r.st = "calling" => Len(r.sleeps) = r.calls - 1 /\ OpInFlight # {}
         /\ r.st = "sleeping" => Len(r.sleeps) = r.calls /\ r.calls < n
         /\ r.st = "thrown" =>
              /\ r.calls = n
              /\ Len(r.sleeps) = n - 1
              /\ r.err = FnError(n, "op")
              /\ n = 3 => Sum(r.sleeps) = r.delay * (1 + 2)

C4_Witness ==
    /\ retry[OP].st = "thrown"
    /\ retry[OP].attempts = 3
    /\ plan >= 3
    /\ retry[OP].sleeps = <<RETRY_DELAY, 2 * RETRY_DELAY>>
    /\ retry[OP].err.from = "fn"

\* C5: withRetry run with attempts n >= 1 and an operation that fails on its
\* first k < n invocations and then succeeds never throws, never has two
\* invocations in flight, never calls the operation more than k+1 times, and
\* returns the value of invocation k+1 after exactly k sleeps.
C5_RetrySuccess ==
    LET r == retry[OP]
        n == r.attempts
    IN (n >= 1 /\ plan < n) =>
         /\ r.st \in {"calling", "sleeping", "returned"}
         /\ r.calls <= plan + 1
         /\ Cardinality(OpInFlight) <= 1
         /\ r.st = "returned" =>
              /\ r.val = OpValue(plan + 1)
              /\ r.calls = plan + 1
              /\ Len(r.sleeps) = plan
              /\ OpInFlight = {}

C5_Witness ==
    /\ retry[OP].st = "returned"
    /\ retry[OP].attempts = 3
    /\ plan = 2
    /\ Len(retry[OP].sleeps) = 2
    /\ retry[OP].val = OpValue(3)

\* --------------------------------------------------------- claims on readers

TokensDone == out["eth"].st = "fulfilled"
PrimaryOut == rpc[PRIMARY] = "unreachable" /\ rpc[FALLBACK] = "up"
\* the supply the fallback endpoint's answers decode to
FallbackSupply == formatUnits(HexToInt(SupplyHex), HexToInt(DecimalsHex))

\* C1: with the primary endpoint failing every call and the fallback endpoint
\* answering, fetchEthereumSupplies returns for every token the supply decoded
\* from the fallback's answers, not '0'.
C1_FallbackSupplyReturned ==
    (PrimaryOut /\ TokensDone) =>
        \A k \in 1..Len(ethTokens) :
            /\ out["eth"].val[k].supply = FallbackSupply
            /\ out["eth"].val[k].supply # ZERO

\* C2: fetchSolanaSupplies does not raise when the batched call fails on every
\* attempt: the step in which the last attempt's fetch fails (the reader
\* settles while attempt RETRY_ATTEMPTS awaits its response) fulfils the
\* reader's promise with the list of '0' supplies.
C2_SolanaNeverRaises ==
    [][(out["sol"].st = "pending" /\ out'["sol"].st # "pending"
        /\ retry["sol"].calls = RETRY_ATTEMPTS
        /\ \E v \in inv : v.proc = "sol" /\ v.phase = "fetch")
       => out'["sol"] = Fulfilled([k \in 1..Len(solTokens) |->
                                      SolSupply(solTokens[k], ZERO)])]_vars

\* C3: whatever the four sources do, the request is answered with a snapshot,
\* never with the error response.
C3_AlwaysSnapshot ==
    handler.pc = "responded" => handler.response.status = 200

\* C6: in every reader a network call that fails in transport is tried again
\* under withRetry's policy: after the failure either the backoff sleep starts
\* or the failed attempt was the last of RETRY_ATTEMPTS.
C6_TransientFailureRetried ==
    [][/\ \A t \in TokenProcs :
            (rpc[PRIMARY] = "unreachable" /\ Awaiting(t) /\ single[t].url = PRIMARY
             /\ single'[t] # single[t])
            => (retry'[t].st = "sleeping" \/ retry[t].calls = RETRY_ATTEMPTS)
       /\ \A v \in HttpInFlight :
            (v.phase = "fetch" /\ v \notin inv'
             /\ [v EXCEPT !.phase = "body"] \notin inv')
            => (retry'[v.proc].st = "sleeping" \/ retry[v.proc].calls = RETRY_ATTEMPTS)
      ]_vars

\* C7: no invocation of a network operation is still in flight, unaborted,
\* once 5000 ms have passed since it began.
C7_NoCallPastDeadline ==
    \A v \in HttpInFlight : ~v.late

\* The armed timers of the processes that make up a reader.
ReaderProcs(r) == IF r = "eth" THEN TokenProcs ELSE {r}
TimersOf(P) == {tm \in timers : tm.proc \in P}

\* C8: every attempt in flight has its own timer window: an invocation that
\* awaits its response has exactly the timer it armed itself; an armed timer
\* always belongs to the invocation now in flight of its process, never to an
\* earlier attempt, so it can abort no other attempt; and no timer of a reader
\* is armed once the reader has returned.
C8_TimerPerAttempt ==
    /\ \A tm \in timers :
          /\ Cancels(tm) # {}
          /\ tm.proc \in HttpProcs =>
                /\ tm.n = retry[tm.proc].calls
                /\ \E v \in inv : v.proc = tm.proc /\ v.n = tm.n /\ v.phase = "fetch"
          /\ tm.proc \in TokenProcs => Awaiting(tm.proc) /\ single[tm.proc].n = tm.n
    /\ \A v \in HttpInFlight : v.phase = "fetch" => TimerOf(v.proc, v.n) \in timers
    /\ \A t \in TokenProcs : Awaiting(t) => TimerOf(t, single[t].n) \in timers
    /\ \A p \in Procs : Cardinality(TimersOf({p})) <= 1
    /\ \A r \in Readers : out[r].st # "pending" => TimersOf(ReaderProcs(r)) = {}

\* a second attempt in flight with the timer it armed, the first one's gone
C8_Witness ==
    /\ retry["sol"].calls = 2
    /\ TimerOf("sol", 2) \in timers
    /\ TimerOf("sol", 1) \notin timers
    /\ out["btc"].st # "pending"
    /\ \E t \in TokenProcs : Awaiting(t)

C10_PositionalIdentity ==
    /\ out["eth"].st = "fulfilled" =>
          /\ Len(out["eth"].val) = Len(ethTokens)
          /\ \A k \in 1..Len(ethTokens) :
                /\ out["eth"].val[k].symbol = ethTokens[k].symbol
                /\ out["eth"].val[k].address = ethTokens[k].address
    /\ out["sol"].st = "fulfilled" =>
          /\ Len(out["sol"].val) = Len(solTokens)
          /\ \A k \in 1..Len(solTokens) :
                /\ out["sol"].val[k].symbol = solTokens[k].symbol
                /\ out["sol"].val[k].mint = solTokens[k].mint
    /\ (handler.pc = "responded" /\ handler.response.status = 200) =>
          /\ handler.response.payload.ethereum = out["eth"].val
          /\ handler.response.payload.solana = out["sol"].val
          /\ Len(handler.response.payload.ethereum) = Len(ethTokens)
          /\ Len(handler.response.payload.solana) = Len(solTokens)

\* a snapshot whose first Ethereum token failed and whose second did not, and
\* whose first Solana account was missing
C10_Witness ==
    /\ handler.pc = "responded"
    /\ handler.response.status = 200
    /\ handler.response.payload.ethereum[1].supply = ZERO
    /\ handler.response.payload.ethereum[2].supply # ZERO
    /\ handler.response.payload.solana[1].supply = ZERO
    /\ handler.response.payload.solana[2].supply # ZERO

\* ------------------------------------------------- claims on the Solana reader

\* the response's list with a sample account put at index i (the entries a
\* short list lacks before i stay missing)
WithEntryAt(accounts, i) ==
    [k \in 1..(IF Len(accounts) > i THEN Len(accounts) ELSE i) |->
        IF k = i THEN Account(SampleMint)
        ELSE IF k <= Len(accounts) THEN accounts[k] ELSE NullAccount]

\* C11: in a successful batched response whose entry i is null or absent, the
\* output for i has supply '0', and every other index j has what it would have
\* were entry i present, which for a well-formed blob at j is the supply
\* decoded from that blob's own amount and decimals.
C11_SolanaIsolation ==
    (/\ probe.fn = "fetchSolanaSupplies"
     /\ probe.settled.st = "returned"
     /\ probe.settled.val.hasValue) =>
        LET accounts == probe.settled.val.value
            result == probe.out.val
            Missing(i) == i > Len(accounts) \/ accounts[i] = NullAccount
        IN /\ probe.out.st = "fulfilled"
           /\ \A i \in 1..Len(solTokens) : Missing(i) =>
                /\ result[i].supply = ZERO
                /\ \A j \in 1..Len(solTokens) \ {i} :
                     /\ result[j] =
                          ReaderOutcome("sol", ReturnedWith(SolValue(
                              WithEntryAt(accounts, i)))).val[j]
                     /\ \A a \in ProbeAmounts, d \in ProbeDecimals :
                          (j <= Len(accounts) /\ accounts[j] = Account(MintBytes(a, d, 45)))
                          => result[j].supply = formatUnits(a, d)

\* a null entry before a well-formed one: '0' and then '1.234567'
C11_Witness ==
    /\ probe.fn = "fetchSolanaSupplies"
    /\ probe.settled.st = "returned"
    /\ probe.settled.val.hasValue
    /\ Len(probe.settled.val.value) >= 2
    /\ probe.settled.val.value[1] = NullAccount
    /\ probe.settled.val.value[2] = Account(MintBytes(1234567, 6, 45))
    /\ probe.out.val[1].supply = ZERO
    /\ probe.out.val[2].supply = <<"1", ".", "2", "3", "4", "5", "6", "7">>

\* ----------------------------------------------- claims on the Ethereum reader

\* C12: the tokens' fetches are independent: a step of one token's fetch (a
\* response parsed, a failure, a timeout) leaves every other token's
\* invocation, retry frame, timer and result slot as they were, puts nothing
\* but that token's own record in its slot ('0' or the decoded supply), and
\* never makes fetchEthereumSupplies fail.
C12_TokenIsolation ==
    [][\A t \in TokenProcs :
          (Awaiting(t) /\ single'[t] # single[t]) =>
             /\ \A u \in TokenProcs \ {t} :
                   /\ single'[u] = single[u]
                   /\ retry'[u] = retry[u]
                   /\ {tm \in timers' : tm.proc = u} = {tm \in timers : tm.proc = u}
                   /\ ethSlots'[TokenOf(u)] = ethSlots[TokenOf(u)]
             /\ ethSlots'[TokenOf(t)] # ethSlots[TokenOf(t)] =>
                   /\ ethSlots'[TokenOf(t)].symbol = t
                   /\ ethSlots'[TokenOf(t)].supply \in {ZERO, FallbackSupply}
             /\ out'["eth"].st # "rejected"
      ]_vars

\* one token has failed to '0' while another, half way through its two calls,
\* is still in flight under its own timer
C12_Witness ==
    \E t, u \in TokenProcs :
        /\ t # u
        /\ Awaiting(u)
        /\ ethSlots[TokenOf(t)].supply = ZERO
        /\ single[u].supply.done
        /\ ~single[u].decimals.done
        /\ TimerOf(u, single[u].n) \in timers

\* ------------------------------------------------------ claims on the handler

\* C13: the request is answered (snapshot or error response) only after all
\* four readers have completed: no response exists while a reader is pending.
C13_JoinBeforeResponse ==
    handler.pc = "responded" => \A r \in Readers : out[r].st # "pending"

\* a decimal with at most 8 fraction digits as whole units and hundred-millionths
ExactUnits(str) ==
    LET dot == DotAt(str)
        frac == SubSeq(str, dot + 1, Len(str))
    IN [hi |-> DigitsToInt(SubSeq(str, 1, dot - 1)),
        lo |-> DigitsToInt(SubSeq(frac \o <<"0", "0", "0", "0", "0", "0", "0", "0">>, 1, 8))]

AddUnits(x, y) ==
    [hi |-> x.hi + y.hi + (x.lo + y.lo) \div SATS_PER_BTC,
     lo |-> (x.lo + y.lo) % SATS_PER_BTC]

RECURSIVE ExactSum(_)
ExactSum(tokens) ==
    IF tokens = <<>> THEN [hi |-> 0, lo |-> 0]
    ELSE AddUnits(ExactUnits(tokens[1].supply), ExactSum(Tail(tokens)))

WithEightDigits(u) ==
    BigIntToString(u.hi) \o <<".">> \o PadStart(BigIntToString(u.lo), 8)

\* C14: for supplies that are multiples of 10^-8, ethereumTotal and solanaTotal
\* are the exact sums of their lists' supplies and grandTotal is the exact sum
\* of the two, each with exactly 8 fraction digits.
C14_TotalsExact ==
    probe.fn = "fetch" =>
        /\ probe.out.ethereumTotal = WithEightDigits(ExactSum(probe.eth))
        /\ probe.out.solanaTotal = WithEightDigits(ExactSum(probe.sol))
        /\ probe.out.grandTotal =
              WithEightDigits(AddUnits(ExactSum(probe.eth), ExactSum(probe.sol)))

\* ------------------------------------- claims on the Bitcoin and price readers

\* C15: fetchBitcoinSupply always returns: '0' when every attempt of the stats
\* call failed and when the figure is not a number, is negative or exceeds
\* 21,000,000 * 10^8; otherwise the figure in whole coins (rounded to the
\* nearest), its digits grouped by thousands.
C15_BitcoinNeverRaises ==
    probe.fn = "fetchBitcoinSupply" =>
        LET c == probe.settled.val
            str == probe.out.val
            valid == /\ c.number
                     /\ c.btc >= 0
                     /\ (c.btc < MAX_BTC \/ (c.btc = MAX_BTC /\ c.sat = 0))
            coins == c.btc + (IF 2 * c.sat >= SATS_PER_BTC THEN 1 ELSE 0)
        IN /\ probe.out.st = "fulfilled"
           /\ probe.settled.st = "thrown" => str = ZERO
           /\ (probe.settled.st = "returned" /\ ~valid) => str = ZERO
           /\ (probe.settled.st = "returned" /\ valid) =>
                 /\ SelectSeq(str, LAMBDA ch : ch # ",") = BigIntToString(coins)
                 /\ \A k \in 1..Len(str) :
                       (str[k] = ",") <=> ((Len(str) - k + 1) % 4 = 0)

\* one satoshi more than 21,000,000 coins gives '0'
C15_Witness ==
    /\ probe.fn = "fetchBitcoinSupply"
    /\ probe.settled.st = "returned"
    /\ probe.settled.val = Satoshis(MAX_BTC, 1)
    /\ probe.out = Fulfilled(ZERO)

\* C16: fetchSolBtcPrice always returns a positive price: the fallback 0.002
\* when every attempt of the pricing call failed and when the price is not a
\* number, zero or negative; otherwise the price received.
C16_PriceNeverRaises ==
    probe.fn = "fetchSolBtcPrice" =>
        LET c == probe.settled.val
            valid == c.number /\ c.micro > 0
        IN /\ probe.out.st = "fulfilled"
           /\ probe.out.val > 0
           /\ probe.settled.st = "thrown" => probe.out.val = FALLBACK_PRICE
           /\ (probe.settled.st = "returned" /\ ~valid) => probe.out.val = FALLBACK_PRICE
           /\ (probe.settled.st = "returned" /\ valid) => probe.out.val = c.micro

\* a price of zero gives the fallback
C16_Witness ==
    /\ probe.fn = "fetchSolBtcPrice"
    /\ probe.settled.st = "returned"
    /\ probe.settled.val = Price(0)
    /\ probe.out = Fulfilled(FALLBACK_PRICE)

\* ------------------------------------------- claims on decoding and validation

\* entry idx of a batched response is missing or cannot be decoded
BadEntry(body, idx) ==
    \/ idx > Len(body.value)
    \/ ~body.value[idx].present
    \/ ~body.value[idx].base64

\* the body received fails the reader's decoding or validation
DecodeFails(p, body) ==
    CASE p = "sol" -> ~body.hasValue \/ \E idx \in 1..Len(solTokens) : BadEntry(body, idx)
      [] p = "btc" -> \/ ~body.number
                      \/ body.btc < 0
                      \/ body.btc > MAX_BTC
                      \/ (body.btc = MAX_BTC /\ body.sat > 0)
      [] p = "price" -> ~body.number \/ body.micro <= 0

\* the reader's result carries the sentinel for what failed
Degraded(p, body, val) ==
    CASE p = "sol" -> \A idx \in 1..Len(solTokens) :
                         (~body.hasValue \/ BadEntry(body, idx)) => val[idx].supply = ZERO
      [] p = "btc" -> val = ZERO
      [] p = "price" -> val = FALLBACK_PRICE

\* C17: a response that was received and fails decoding or validation is never
\* retried: when attempt k is the first to receive a body and that body fails,
\* the reader has made exactly k calls and slept only after the k-1 failed
\* ones, and returns the sentinel; an Ethereum result that cannot be decoded
\* gives '0' after the one invocation, with no sleep.
C17_DecodeFailureNotRetried ==
    /\ probe.fn = "reader" =>
          \A k \in 1..RETRY_ATTEMPTS :
             (/\ \A j \in 1..(k - 1) : probe.script[j].kind = "fails"
              /\ probe.script[k].kind = "body"
              /\ DecodeFails(probe.reader, probe.script[k].body)) =>
                 /\ probe.settled.st = "returned"
                 /\ probe.settled.calls = k
                 /\ probe.settled.sleeps = [j \in 1..(k - 1) |-> RETRY_DELAY * 2 ^ (j - 1)]
                 /\ probe.out.st = "fulfilled"
                 /\ Degraded(probe.reader, probe.script[k].body, probe.out.val)
    /\ probe.fn = "fetchSingleSupply" =>
          LET s == probe.supply
              d == probe.decimals
              undecodable == \/ (s.json.present /\ ~HexValid(s.json.hex))
                             \/ (d.json.present /\ ~HexValid(d.json.hex))
          IN (~s.failed /\ ~d.failed /\ undecodable) =>
                /\ probe.result.val.supply = ZERO
                /\ probe.settled.st = "returned"
                /\ probe.settled.calls = 1
                /\ probe.settled.sleeps = <<>>

\* the Bitcoin reader's second attempt receives a figure above the maximum:
\* two calls, one sleep, '0'
C17_Witness ==
    /\ probe.fn = "reader"
    /\ probe.reader = "btc"
    /\ probe.script[1] = Fails("network")
    /\ probe.script[2] = Answers(Satoshis(MAX_BTC, 1))
    /\ probe.settled.calls = 2
    /\ probe.settled.sleeps = <<RETRY_DELAY>>
    /\ probe.out = Fulfilled(ZERO)

\* C19: a token's supply is '0' unless both of its calls completed without a
\* transport failure and without a JSON-RPC error; when both did, the supply is
\* the total-supply result at the decimals result's number of places, 8 places
\* when the decimals result is absent.
C19_TwoCallValidity ==
    probe.fn = "fetchSingleSupply" =>
        LET s == probe.supply
            d == probe.decimals
            got == probe.result.val
            bothOk == ~s.failed /\ ~d.failed /\ ~s.json.error /\ ~d.json.error
            decodable(j) == j.present /\ HexValid(j.hex)
        IN /\ ~probe.result.rejected
           /\ got.symbol = probe.token.symbol
           /\ got.address = probe.token.address
           /\ ~bothOk => got.supply = ZERO
           /\ (bothOk /\ decodable(s.json) /\ decodable(d.json)) =>
                 got.supply = formatUnits(HexToInt(s.json.hex), HexToInt(d.json.hex))
           /\ (bothOk /\ decodable(s.json) /\ ~d.json.present) =>
                 got.supply = formatUnits(HexToInt(s.json.hex), 8)

\* both calls answered, the decimals result absent: 150000000 at 8 places
C19_Witness ==
    /\ probe.fn = "fetchSingleSupply"
    /\ probe.supply = CallAnswers(RpcResult(SupplyHex))
    /\ probe.decimals = CallAnswers(RpcAbsent)
    /\ probe.result.val.supply = <<"1", ".", "5">>

\* C20: a present, well-formed account blob with amount a at bytes 36..43 and
\* decimals byte d gives the supply formatUnits(a, d), for every d from 0 on,
\* d = 0 included.
C20_DecimalsByteDecoded ==
    probe.fn = "decode" =>
        probe.out = SolSupply(probe.token, formatUnits(probe.amount, probe.decimals))

\* the same for the decimals bytes other than 0
C20_NonZeroDecimalsByteDecoded ==
    (probe.fn = "decode" /\ probe.decimals # 0) =>
        probe.out = SolSupply(probe.token, formatUnits(probe.amount, probe.decimals))

\* a decimals byte of 0 is read as 8 places
C20_ZeroByteReadAsEight ==
    (probe.fn = "decode" /\ probe.decimals = 0) =>
        probe.out = SolSupply(probe.token, formatUnits(probe.amount, 8))

\* ------------------------------------------------- claims on the aggregation

\* the snapshot the results of the four readers determine
SnapshotOf(results) ==
    SnapshotResponse(Payload(results["eth"].val, results["sol"].val,
                             results["btc"].val, results["price"].val))

\* C18: an invocation produces exactly one snapshot, the one determined by
\* what its four readers observed (so that two invocations observing the same
\* are answered alike), and leaves behind no timer and no call in flight, only
\* the entry it put in the cache.
C18_OneSnapshotPerInvocation ==
    handler.pc = "responded" =>
        /\ AllFulfilled
        /\ handler.response = SnapshotOf(out)
        /\ cache = {handler.response}
        /\ timers = {}
        /\ inv = {}

\* the same for the invocations that are answered with a snapshot
C18_SnapshotDetermined ==
    (handler.pc = "responded" /\ handler.response.status = 200) =>
        /\ AllFulfilled
        /\ handler.response = SnapshotOf(out)
        /\ cache = {handler.response}
        /\ timers = {}
        /\ inv = {}

\* ------------------------------------------------ claims on malformed blobs

\* the batch's result leaves every index but i as it is with a sample account
\* at i
OnlyAffects(i) ==
    \A j \in 1..Len(solTokens) \ {i} :
        probe.out.val[j] =
            ReaderOutcome("sol", ReturnedWith(SolValue(
                WithEntryAt(probe.settled.val.value, i)))).val[j]

\* C21: a present blob that cannot be decoded from base64 or decodes to fewer
\* than 45 bytes (44 included) gives supply '0' for its token, leaves the other
\* tokens as they are and does not abort the batch.
C21_MalformedBlobIsZero ==
    probe.fn = "malformed" =>
        /\ probe.out.st = "fulfilled"
        /\ probe.out.val[probe.at].supply = ZERO
        /\ OnlyAffects(probe.at)

\* the same for the blobs of fewer than 44 bytes and those that are no base64
C21_BelowAmountEndIsZero ==
    (probe.fn = "malformed" /\ (~probe.blob.base64 \/ Len(probe.blob.bytes) < 44)) =>
        /\ probe.out.st = "fulfilled"
        /\ probe.out.val[probe.at].supply = ZERO
        /\ OnlyAffects(probe.at)

\* a blob of exactly 44 bytes is decoded at 8 places, the rest of the batch
\* untouched
C21_FortyFourBytesReadAtEight ==
    (probe.fn = "malformed" /\ probe.blob.base64 /\ Len(probe.blob.bytes) = 44) =>
        /\ probe.out.st = "fulfilled"
        /\ probe.out.val[probe.at].supply \in {formatUnits(a, 8) : a \in ProbeAmounts}
        /\ probe.out.val[probe.at].supply # ZERO
        /\ OnlyAffects(probe.at)

\* ------------------------------------------------------ claims on formatUnits

Digits == {DigitChar(d) : d \in 0..9}

\* C22: formatUnits(r, d) is made of digits and at most one point (no
\* exponent); its integer part is not empty and has no leading zero unless it
\* is "0"; its fractional part, when there is one, has 1 to d digits and does
\* not end in 0; and the digits denote r / 10^d exactly: the integer part
\* followed by the fractional part filled to d digits reads r. (So the integer
\* part is "0" when r < 10^d and there is no fractional part when 10^d divides
\* r.) formatUnits(150000000, 8) = "1.5" and formatUnits(0, 8) = "0".
C22_FormatUnitsExact ==
    probe.fn = "formatUnits" =>
        LET str == probe.out
            d == probe.decimals
            dot == DotAt(str)
            intPart == SubSeq(str, 1, dot - 1)
            fracPart == SubSeq(str, dot + 1, Len(str))
        IN /\ \A k \in 1..Len(str) : k # dot => str[k] \in Digits
           /\ intPart # <<>>
           /\ Len(intPart) > 1 => intPart[1] # "0"
           /\ dot <= Len(str) => /\ fracPart # <<>>
                                 /\ Len(fracPart) <= d
                                 /\ fracPart[Len(fracPart)] # "0"
           /\ DigitsToInt(intPart \o fracPart \o [k \in 1..(d - Len(fracPart)) |-> "0"])
                 = probe.value
           /\ (probe.value = 150000000 /\ d = 8) => str = <<"1", ".", "5">>
           /\ (probe.value = 0 /\ d = 8) => str = <<"0">>

\* 1234567 at 8 places: a padded integer part and a fractional part
C22_Witness ==
    /\ probe.fn = "formatUnits"
    /\ probe.value = 1234567
    /\ probe.decimals = 8
    /\ probe.out = <<"0", ".", "0", "1", "2", "3", "4", "5", "6", "7">>

\* ------------------------------------------------ claims on fetchSingleSupply

\* C23: whatever its two calls meet (a transport failure: network error, abort
\* or unparsable JSON; a JSON-RPC error; a result that is no hex integer; a
\* result), fetchSingleSupply fulfils, and withRetry returns what it fulfilled
\* with: a record of the token's own symbol and address, whose supply is '0'
\* whenever a call failed, carried an error or a result that cannot be decoded.
C23_SingleSupplyTotal ==
    probe.fn = "fetchSingleSupply" =>
        LET s == probe.supply
            d == probe.decimals
            failure == \/ s.failed \/ d.failed
                       \/ s.json.error \/ d.json.error
                       \/ (s.json.present /\ ~HexValid(s.json.hex))
                       \/ (d.json.present /\ ~HexValid(d.json.hex))
        IN /\ ~probe.result.rejected
           /\ probe.settled.st = "returned"
           /\ probe.settled.val = probe.result.val
           /\ DOMAIN probe.result.val = {"symbol", "supply", "address"}
           /\ probe.result.val.symbol = probe.token.symbol
           /\ probe.result.val.address = probe.token.address
           /\ failure => probe.result.val.supply = ZERO

\* the total-supply call fails in transport while the decimals call answers
C23_Witness ==
    /\ probe.fn = "fetchSingleSupply"
    /\ probe.supply = CallFails
    /\ probe.decimals = CallAnswers(RpcResult(DecimalsHex))
    /\ probe.result = [rejected |-> FALSE,
                       val |-> [symbol |-> probe.token.symbol, supply |-> ZERO,
                                address |-> probe.token.address]]

\* ------------------------------------------------- claims on the error response

\* C24: when a reader has rejected, the request is answered with status 500
\* and the generic body, no snapshot is built and nothing is written to the
\* cache; the cache only ever holds the snapshot response of the request that
\* was answered with it.
C24_ErrorLeavesCache ==
    /\ (handler.pc = "responded" /\ AnyRejected) =>
          /\ handler.response = [status |-> 500, body |-> "Internal server error"]
          /\ cache = {}
    /\ cache # {} =>
          /\ handler.pc = "responded"
          /\ handler.response.status = 200
          /\ handler.response.body = "payload"
          /\ cache = {handler.response}

\* the Solana reader has rejected and the request is answered
C24_Witness ==
    /\ handler.pc = "responded"
    /\ out["sol"].st = "rejected"
    /\ handler.response.status = 500
    /\ cache = {}

\* --------------------------------------------------------- claims on termination

\* C25: with every call settling or being aborted and every sleep elapsing,
\* the request is eventually answered, and answered once (the response, once
\* given, never changes); no single-call reader makes more than RETRY_ATTEMPTS
\* attempts, and no token sees more call pairs than the RETRY_ATTEMPTS of
\* withRetry and the one of the fallback.
C25_Termination ==
    /\ <>(handler.pc = "responded")
    /\ [](\A p \in HttpProcs :
            /\ retry[p].calls <= RETRY_ATTEMPTS
            /\ \A v \in inv : v.proc = p => v.n <= RETRY_ATTEMPTS)
    /\ [](\A t \in TokenProcs :
            /\ retry[t].calls <= RETRY_ATTEMPTS
            /\ single[t].n <= RETRY_ATTEMPTS + 1)
    /\ [][handler.pc = "responded" => handler' = handler]_vars

\* the request answered with a snapshot, every reader done
C25_Witness ==
    /\ handler.pc = "responded"
    /\ handler.response.status = 200
    /\ \A p \in Procs \ {OP} : retry[p].st = "idle"
    /\ inv = {}

\* ------------------------------------------------------- claims on the cache

\* C26: a stored response is never served: whatever the cache holds, handling
\* a request starts all four readers (withRetry called for each token and each
\* single-call reader, nothing answered yet), and the response returned is the
\* error response or the snapshot built from this request's readers, never the
\* response found in the cache.
C26_CacheNeverServed ==
    /\ [][handler.pc = "idle" /\ handler'.pc # "idle" =>
            /\ handler'.pc = "awaiting"
            /\ \A p \in TokenProcs \cup HttpProcs :
                  retry'[p].st = "calling" /\ retry'[p].calls = 1
            /\ \A t \in TokenProcs : single'[t].st = "awaiting"
            /\ \A p \in HttpProcs : \E v \in inv' : v.proc = p]_vars
    /\ [](handler.pc = "responded" =>
            /\ handler.response # StoredResponse
            /\ handler.response.status = 200 => handler.response = SnapshotOf(out))

\* a request answered with its own snapshot while the cache held a stored one
C26_Witness ==
    /\ StoredResponse \in cache
    /\ handler.pc = "responded"
    /\ handler.response.status = 200
    /\ handler.response # StoredResponse
    /\ handler.response \in cache

\* ---------------------------------------------- claims on the attempts of withRetry

\* C27: withRetry called with attempts <= 0 never calls the operation, never
\* sleeps and throws 'Retry attempts exhausted'; called with attempts >= 1 it
\* never throws that error: it returns the value of the operation's call that
\* fulfilled, or throws the failure the operation's last call raised.
C27_ExhaustedOnlyWithoutAttempts ==
    LET r == retry[OP] IN
    r.st # "idle" =>
        /\ r.attempts <= 0 =>
              /\ r.st = "thrown"
              /\ r.err = [from |-> "withRetry", call |-> 0,
                          reason |-> "Retry attempts exhausted"]
              /\ r.calls = 0
              /\ r.sleeps = <<>>
              /\ \A v \in inv : v.proc # OP
        /\ r.attempts >= 1 =>
              /\ r.err.from # "withRetry"
              /\ r.st \in {"calling", "sleeping", "returned", "thrown"}
              /\ r.st = "returned" => r.val = OpValue(r.calls)
              /\ r.st = "thrown" => r.err = FnError(r.attempts, "op")

\* withRetry called with no attempt to make has thrown
C27_Witness ==
    /\ retry[OP].attempts <= 0
    /\ retry[OP].st = "thrown"
    /\ retry[OP].err = Exhausted
    /\ retry[OP].calls = 0

\* withRetry called with one attempt or more has thrown the operation's failure
C27_WitnessOwnFailure ==
    /\ retry[OP].attempts >= 1
    /\ retry[OP].st = "thrown"
    /\ retry[OP].err = FnError(retry[OP].attempts, "op")

====
